---------------------------- MODULE Spec2Model ----------------------------
(***************************************************************************)
(* BountyLedger: the on-chain ledger of bounties and the cross-chain       *)
(* activity journal (contract BountyLedger, Solidity ^0.8.19).             *)
(*                                                                         *)
(* Every external function is one atomic action (an EVM transaction either *)
(* commits all of its writes and its event, or reverts all of them).       *)
(* uint256 is modelled as an unsigned integer of UintBits bits with the    *)
(* checked arithmetic of Solidity 0.8 (overflow reverts with a Panic).     *)
(***************************************************************************)
EXTENDS Integers, Sequences, FiniteSets, TLC

VARIABLES
    agent,        \* address public immutable agent
    bounties,     \* Bounty[] public bounties
    activityLog,  \* ActivityLog[] public activityLog
    bountyIndex,  \* mapping(bytes32 => uint256) public bountyIndex
    events,       \* the log of emitted events, in emission order
    now,          \* block.timestamp of the latest block
    lastCall,     \* the latest external call: function, msg.sender, outcome, return value
    okCalls       \* per function, the number of calls that returned without reverting

vars == <<agent, bounties, activityLog, bountyIndex, events, now, lastCall, okCalls>>

----------------------------------------------------------------------------
(* Bounds of the model *)

MaxEvents == 3
MaxTime == 2
UintBits == 7

\* the largest value of the modelled uint256
UintMax == 2^UintBits - 1

----------------------------------------------------------------------------
(* Inputs *)

Callers == {"0xa312", "0xbeef"}
Deployers == {"0xa312"}
\* (platform, bountyId): two pairs whose packed encodings coincide, and a third
Pairs == {<<"a", "bc">>, <<"ab", "c">>, <<"a", "c">>}
Titles == {"Fix bug"}
\* the reward estimate of a claim, and the settled amounts of a payment: below
\* the estimate, and the largest amount there is
Estimates == {2}
Amounts == {1, UintMax}
Links == {"https://pr/1"}
Reasons == {"n/a"}
Chains == {"polygon"}
Actions == {"trade_placed"}
Details == {"{}"}

\* the life of one bounty: its pair, title and estimates (none, the amount that
\* is settled, and more), and the settled amounts
LifePairs == {<<"github", "42">>}
LifeEstimates == {0, 75, 100}
LifeAmounts == {50, 75}

----------------------------------------------------------------------------
(* Types and constants of the contract *)

Claimed == "Claimed"
Delivered == "Delivered"
Paid == "Paid"
Abandoned == "Abandoned"
Status == {Claimed, Delivered, Paid, Abandoned}

\* the revert reasons of the require statements, and the error kinds they stand for
Unauthorized == "only agent"
DuplicateBounty == "already claimed"
InvalidIndex == "invalid idx"
NotClaimed == "not claimed"
NotDelivered == "not delivered"
InvalidStateTransition == {NotClaimed, NotDelivered}
Panic == "Panic(0x11)"
OK == "ok"

Mutators == {"claimBounty", "recordDelivery", "recordPayment", "abandon", "logActivity"}

----------------------------------------------------------------------------
(* Helpers *)

\* mutant: the modifier lets every caller through
onlyAgent_anyone(caller) == caller \in Callers

\* modifier onlyAgent: require(msg.sender == agent)
onlyAgent(caller) == caller = agent

\* abi.encodePacked of two strings: their bytes, one after the other
abi_encodePacked(platform, bountyId) == platform \o bountyId

\* keccak256, taken to be collision-free: distinct byte strings, distinct digests
keccak256(bytes) == <<"keccak256", bytes>>

BountyKey(platform, bountyId) == keccak256(abi_encodePacked(platform, bountyId))

\* a read of the mapping: a key never written reads 0
bountyIndexAt(key) == IF key \in DOMAIN bountyIndex THEN bountyIndex[key] ELSE 0

\* mutant: the duplicate check is missing
notYetClaimed_unchecked(key) == key = key

\* mutant: the key of an Abandoned bounty may be claimed again
notYetClaimed_orAbandoned(key) ==
    \/ bountyIndexAt(key) = 0
    \/ bounties[bountyIndexAt(key)].status = "Abandoned"

\* require(bountyIndex[key] == 0, "already claimed")
notYetClaimed(key) == bountyIndexAt(key) = 0

\* require(idx < bounties.length, "invalid idx")
validIdx(idx) == idx < Len(bounties)

\* mutant: the index is taken after the push
nextBountyIdx_afterPush == Len(bounties) + 1

\* idx = bounties.length
nextBountyIdx == Len(bounties)

\* mutant: the index is taken after the push
nextActivityIdx_afterPush == Len(activityLog) + 1

\* idx = activityLog.length
nextActivityIdx == Len(activityLog)

\* mutant: the index holds the ordinal itself, so that bounty 0 reads as unclaimed
indexEntry_ordinal(idx) == idx

\* the value written to bountyIndex[key]
indexEntry(idx) == idx + 1

NewBounty(platform, bountyId, title, rewardUsd, t) ==
    [platform |-> platform, bountyId |-> bountyId, title |-> title,
     rewardUsd |-> rewardUsd, status |-> Claimed, claimedAt |-> t,
     deliveredAt |-> 0, paidAt |-> 0, prLink |-> ""]

\* mutant: an Abandoned bounty can be taken up again and delivered
canDeliver_orAbandoned(b) == b.status \in {"Claimed", "Abandoned"}

\* require(b.status == Status.Claimed, "not claimed")
canDeliver(b) == b.status = Claimed

\* mutant: a bounty can be paid before it is delivered
canPay_undelivered(b) == b.status \in {"Claimed", "Delivered"}

\* require(b.status == Status.Delivered, "not delivered")
canPay(b) == b.status = Delivered

\* mutant: the delivery is recorded without its timestamp
DeliveredBounty_unstamped(b, prLink, t) ==
    [b EXCEPT !.status = "Delivered", !.prLink = prLink]

DeliveredBounty(b, prLink, t) ==
    [b EXCEPT !.status = Delivered, !.deliveredAt = t, !.prLink = prLink]

\* mutant: the payment is recorded beside the estimate, which stays
PaidBounty_keepsEstimate(b, amount, t) ==
    [b EXCEPT !.status = "Paid", !.paidAt = t]

PaidBounty(b, amount, t) ==
    [b EXCEPT !.status = Paid, !.paidAt = t, !.rewardUsd = amount]

\* mutant: abandon of an Abandoned bounty takes it up again
AbandonedBounty_reopens(b) ==
    [b EXCEPT !.status = IF b.status = "Abandoned" THEN "Claimed" ELSE "Abandoned"]

\* mutant: abandon forfeits the reward
AbandonedBounty_forfeits(b) == [b EXCEPT !.status = "Abandoned", !.rewardUsd = 0]

\* mutant: abandon deletes the record (delete bounties[idx] zeroes its fields)
AbandonedBounty_deleted(b) ==
    [platform |-> "", bountyId |-> "", title |-> "", rewardUsd |-> 0,
     status |-> "Claimed", claimedAt |-> 0, deliveredAt |-> 0, paidAt |-> 0,
     prLink |-> ""]

\* mutant: Paid is terminal, abandon leaves a Paid bounty Paid
AbandonedBounty_keepsPaid(b) ==
    IF b.status = "Paid" THEN b ELSE [b EXCEPT !.status = "Abandoned"]

AbandonedBounty(b) == [b EXCEPT !.status = Abandoned]

\* mutant: the entry is written without its timestamp
NewActivity_undated(chain, action, details, t) ==
    [chain |-> chain, action |-> action, details |-> details, timestamp |-> 0]

NewActivity(chain, action, details, t) ==
    [chain |-> chain, action |-> action, details |-> details, timestamp |-> t]

\* mutant: platform and bountyId change places in the event
BountyClaimedEvent_swapped(idx, platform, bountyId, title, rewardUsd) ==
    [kind |-> "BountyClaimed", idx |-> idx, platform |-> bountyId,
     bountyId |-> platform, title |-> title, rewardUsd |-> rewardUsd]

\* the events
BountyClaimedEvent(idx, platform, bountyId, title, rewardUsd) ==
    [kind |-> "BountyClaimed", idx |-> idx, platform |-> platform,
     bountyId |-> bountyId, title |-> title, rewardUsd |-> rewardUsd]

BountyDeliveredEvent(idx, prLink) ==
    [kind |-> "BountyDelivered", idx |-> idx, prLink |-> prLink]

BountyPaidEvent(idx, amount) ==
    [kind |-> "BountyPaid", idx |-> idx, amount |-> amount]

BountyAbandonedEvent(idx, reason) ==
    [kind |-> "BountyAbandoned", idx |-> idx, reason |-> reason]

ActivityLoggedEvent(idx, chain, action) ==
    [kind |-> "ActivityLogged", idx |-> idx, chain |-> chain, action |-> action]

\* mutant: the emit statement is missing
emit_nothing(log, e) == log

\* emit
emit(log, e) == Append(log, e)

----------------------------------------------------------------------------
(* Views *)

totalBounties == Len(bounties)

totalActivities == Len(activityLog)

\* mutant: what was paid once stays in the totals
countsAsEarned_everPaid(b) == b.paidAt # 0

\* mutant: a plain else, so that Abandoned bounties count as Paid
countsAsEarned_else(b) == b.status \notin {"Claimed", "Delivered"}

\* which bounties the loop of stats() adds to totalEarned
countsAsEarned(b) == b.status = Paid

\* mutant: the addition is unchecked and wraps around
statsStep_unchecked(acc, b) ==
    IF b.status = "Claimed" THEN [acc EXCEPT !.claimed = @ + 1]
    ELSE IF b.status = "Delivered" THEN [acc EXCEPT !.delivered = @ + 1]
    ELSE IF b.status = "Paid"
         THEN [acc EXCEPT !.paid = @ + 1,
                          !.totalEarned = (@ + b.rewardUsd) % (UintMax + 1)]
    ELSE acc

\* mutant: the loop has no branch for Delivered, which it counts as Claimed
statsStep_noDelivered(acc, b) ==
    IF acc.panic THEN acc
    ELSE IF b.status \in {"Claimed", "Delivered"} THEN [acc EXCEPT !.claimed = @ + 1]
    ELSE IF b.status = "Paid"
         THEN IF acc.totalEarned + b.rewardUsd > UintMax
              THEN [acc EXCEPT !.panic = TRUE]
              ELSE [acc EXCEPT !.paid = @ + 1, !.totalEarned = @ + b.rewardUsd]
    ELSE acc

\* one iteration of the loop of stats(); acc.panic is set when the checked
\* addition totalEarned += rewardUsd overflows
statsStep(acc, b) ==
    IF acc.panic THEN acc
    ELSE IF b.status = Claimed THEN [acc EXCEPT !.claimed = @ + 1]
    ELSE IF b.status = Delivered THEN [acc EXCEPT !.delivered = @ + 1]
    ELSE IF countsAsEarned(b)
         THEN IF acc.totalEarned + b.rewardUsd > UintMax
              THEN [acc EXCEPT !.panic = TRUE]
              ELSE [acc EXCEPT !.paid = @ + 1, !.totalEarned = @ + b.rewardUsd]
    ELSE acc

RECURSIVE statsLoop(_, _, _)
statsLoop(bs, i, acc) ==
    IF i < Len(bs) THEN statsLoop(bs, i + 1, statsStep(acc, bs[i + 1])) ELSE acc

statsOf(bs) ==
    statsLoop(bs, 0, [total |-> Len(bs), claimed |-> 0, delivered |-> 0,
                      paid |-> 0, totalEarned |-> 0, panic |-> FALSE])

stats == statsOf(bounties)

----------------------------------------------------------------------------
(* The outcome of a call *)

Call(op, caller, result, ret) ==
    [op |-> op, caller |-> caller, result |-> result, ret |-> ret]

\* mutant: the failure is published as an event and the call returns early
\* instead of reverting
Revert_published(op, caller, reason) ==
    /\ UNCHANGED <<bounties, activityLog, bountyIndex>>
    /\ events' = Append(events, [kind |-> "Failure", reason |-> reason])
    /\ lastCall' = [op |-> op, caller |-> caller, result |-> reason, ret |-> <<>>]
    /\ UNCHANGED okCalls

\* a revert: every write and event of the transaction is undone
Revert(op, caller, reason) ==
    /\ UNCHANGED <<bounties, activityLog, bountyIndex, events>>
    /\ lastCall' = Call(op, caller, reason, <<>>)
    /\ UNCHANGED okCalls

Return(op, caller, ret) ==
    /\ lastCall' = Call(op, caller, OK, ret)
    /\ okCalls' = [okCalls EXCEPT ![op] = @ + 1]

----------------------------------------------------------------------------
(* Construction *)

\* mutant: the constructor leaves agent unset (the zero address)
constructor_unset(deployer) == agent = "0x0000"

\* constructor: agent = msg.sender
constructor(deployer) == agent = deployer

\* the state after the deployment, in the first block: storage is empty
Init ==
    \E deployer \in Deployers :
       /\ constructor(deployer)
       /\ bounties = <<>>
       /\ activityLog = <<>>
       /\ bountyIndex = <<>>
       /\ events = <<>>
       /\ now = 1
       /\ lastCall = Call("constructor", deployer, OK, <<>>)
       /\ okCalls = [f \in Mutators |-> 0]

----------------------------------------------------------------------------
(* The external functions; t is block.timestamp of the call's block *)

claimBounty(caller, t, platform, bountyId, title, rewardUsd) ==
    LET key == BountyKey(platform, bountyId)
        idx == nextBountyIdx
    IN  /\ now' = t
        /\ UNCHANGED agent
        /\ IF ~onlyAgent(caller) THEN Revert("claimBounty", caller, Unauthorized)
           ELSE IF ~notYetClaimed(key)
                THEN Revert("claimBounty", caller, DuplicateBounty)
           ELSE /\ bounties' = Append(bounties,
                                      NewBounty(platform, bountyId, title, rewardUsd, t))
                /\ bountyIndex' = (key :> indexEntry(idx)) @@ bountyIndex
                /\ events' = emit(events,
                                  BountyClaimedEvent(idx, platform, bountyId, title, rewardUsd))
                /\ UNCHANGED activityLog
                /\ Return("claimBounty", caller, <<idx>>)

recordDelivery(caller, t, idx, prLink) ==
    /\ now' = t
    /\ UNCHANGED agent
    /\ IF ~onlyAgent(caller) THEN Revert("recordDelivery", caller, Unauthorized)
       ELSE IF ~validIdx(idx) THEN Revert("recordDelivery", caller, InvalidIndex)
       ELSE IF ~canDeliver(bounties[idx + 1])
            THEN Revert("recordDelivery", caller, NotClaimed)
       ELSE /\ bounties' = [bounties EXCEPT ![idx + 1] = DeliveredBounty(@, prLink, t)]
            /\ events' = emit(events, BountyDeliveredEvent(idx, prLink))
            /\ UNCHANGED <<activityLog, bountyIndex>>
            /\ Return("recordDelivery", caller, <<>>)

\* mutant: the index is checked before the caller
recordPayment_rangeFirst(caller, t, idx, amount) ==
    /\ now' = t
    /\ UNCHANGED agent
    /\ IF idx >= Len(bounties) THEN Revert("recordPayment", caller, "invalid idx")
       ELSE IF caller # agent THEN Revert("recordPayment", caller, "only agent")
       ELSE IF bounties[idx + 1].status # "Delivered"
            THEN Revert("recordPayment", caller, "not delivered")
       ELSE /\ bounties' = [bounties EXCEPT ![idx + 1] =
                               [@ EXCEPT !.status = "Paid", !.paidAt = t,
                                         !.rewardUsd = amount]]
            /\ events' = Append(events,
                                [kind |-> "BountyPaid", idx |-> idx, amount |-> amount])
            /\ UNCHANGED <<activityLog, bountyIndex>>
            /\ Return("recordPayment", caller, <<>>)

recordPayment(caller, t, idx, amount) ==
    /\ now' = t
    /\ UNCHANGED agent
    /\ IF ~onlyAgent(caller) THEN Revert("recordPayment", caller, Unauthorized)
       ELSE IF ~validIdx(idx) THEN Revert("recordPayment", caller, InvalidIndex)
       ELSE IF ~canPay(bounties[idx + 1])
            THEN Revert("recordPayment", caller, NotDelivered)
       ELSE /\ bounties' = [bounties EXCEPT ![idx + 1] = PaidBounty(@, amount, t)]
            /\ events' = emit(events, BountyPaidEvent(idx, amount))
            /\ UNCHANGED <<activityLog, bountyIndex>>
            /\ Return("recordPayment", caller, <<>>)

abandon(caller, t, idx, reason) ==
    /\ now' = t
    /\ UNCHANGED agent
    /\ IF ~onlyAgent(caller) THEN Revert("abandon", caller, Unauthorized)
       ELSE IF ~validIdx(idx) THEN Revert("abandon", caller, InvalidIndex)
       ELSE /\ bounties' = [bounties EXCEPT ![idx + 1] = AbandonedBounty(@)]
            /\ events' = emit(events, BountyAbandonedEvent(idx, reason))
            /\ UNCHANGED <<activityLog, bountyIndex>>
            /\ Return("abandon", caller, <<>>)

\* mutant: the journal keeps one entry per (chain, action, details): a tuple that
\* is already there has its entry rewritten in place
logActivity_dedup(caller, t, chain, action, details) ==
    LET idx == Len(activityLog)
        same == {j \in 1..Len(activityLog) :
                    /\ activityLog[j].chain = chain
                    /\ activityLog[j].action = action
                    /\ activityLog[j].details = details}
    IN  /\ now' = t
        /\ UNCHANGED agent
        /\ IF caller # agent THEN Revert("logActivity", caller, "only agent")
           ELSE /\ activityLog' =
                      IF same = {}
                      THEN Append(activityLog,
                                  [chain |-> chain, action |-> action,
                                   details |-> details, timestamp |-> t])
                      ELSE [j \in 1..Len(activityLog) |->
                              IF j \in same
                              THEN [activityLog[j] EXCEPT !.timestamp = t]
                              ELSE activityLog[j]]
                /\ events' = Append(events,
                                    [kind |-> "ActivityLogged", idx |-> idx,
                                     chain |-> chain, action |-> action])
                /\ UNCHANGED <<bounties, bountyIndex>>
                /\ Return("logActivity", caller, <<idx>>)

logActivity(caller, t, chain, action, details) ==
    LET idx == nextActivityIdx
    IN  /\ now' = t
        /\ UNCHANGED agent
        /\ IF ~onlyAgent(caller) THEN Revert("logActivity", caller, Unauthorized)
           ELSE /\ activityLog' = Append(activityLog,
                                         NewActivity(chain, action, details, t))
                /\ events' = emit(events, ActivityLoggedEvent(idx, chain, action))
                /\ UNCHANGED <<bounties, bountyIndex>>
                /\ Return("logActivity", caller, <<idx>>)

\* a call of the view stats() (an eth_call: no transaction, no block): it writes
\* nothing and emits nothing
statsCall(caller) ==
    /\ UNCHANGED <<agent, now, okCalls>>
    /\ UNCHANGED <<bounties, activityLog, bountyIndex, events>>
    /\ lastCall' = IF stats.panic THEN Call("stats", caller, Panic, <<>>)
                   ELSE Call("stats", caller, OK,
                             <<stats.total, stats.claimed, stats.delivered,
                               stats.paid, stats.totalEarned>>)

----------------------------------------------------------------------------
(* Specifications *)

\* the indexes of the existing bounties, and the first index out of range
Indexes == 0..Len(bounties)

\* block.timestamp of the call's block: the latest block or a later one
Timestamps == {t \in {now, now + 1} : t <= MaxTime}

\* the model's cap on the growth of the event log, and with it of the two arrays
Bounded(maxEvents) == Len(events') <= maxEvents

ClaimCall ==
    \E caller \in Callers, t \in Timestamps, pb \in Pairs, title \in Titles,
       r \in Estimates :
       claimBounty(caller, t, pb[1], pb[2], title, r) /\ Bounded(MaxEvents)

DeliveryCall ==
    \E caller \in Callers, t \in Timestamps, idx \in Indexes, link \in Links :
       recordDelivery(caller, t, idx, link) /\ Bounded(MaxEvents)

PaymentCall ==
    \E caller \in Callers, t \in Timestamps, idx \in Indexes, amount \in Amounts :
       recordPayment(caller, t, idx, amount) /\ Bounded(MaxEvents)

AbandonCall ==
    \E caller \in Callers, t \in Timestamps, idx \in Indexes, reason \in Reasons :
       abandon(caller, t, idx, reason) /\ Bounded(MaxEvents)

LogCall ==
    \E caller \in Callers, t \in Timestamps, c \in Chains, a \in Actions,
       d \in Details :
       logActivity(caller, t, c, a, d) /\ Bounded(MaxEvents)

StatsCall == \E caller \in Callers : statsCall(caller)

\* any caller, any call
Next == ClaimCall \/ DeliveryCall \/ PaymentCall \/ AbandonCall \/ LogCall \/ StatsCall

Spec == Init /\ [][Next]_vars

\* the cap on the event log in the longer runs of the agent
MaxAgentEvents == MaxEvents + 3

\* The agent alone drives the bounties, every call in the block of the
\* construction: a longer run of the registry, with no journal entries.
AgentClaim ==
    \E pb \in Pairs, title \in Titles, r \in Estimates :
       claimBounty(agent, now, pb[1], pb[2], title, r) /\ Bounded(MaxAgentEvents)

AgentDelivery ==
    \E idx \in Indexes, link \in Links :
       recordDelivery(agent, now, idx, link) /\ Bounded(MaxAgentEvents)

AgentPayment ==
    \E idx \in Indexes, amount \in Amounts :
       recordPayment(agent, now, idx, amount) /\ Bounded(MaxAgentEvents)

AgentAbandon ==
    \E idx \in Indexes, reason \in Reasons :
       abandon(agent, now, idx, reason) /\ Bounded(MaxAgentEvents)

AgentStats == statsCall(agent)

NextAgent == AgentClaim \/ AgentDelivery \/ AgentPayment \/ AgentAbandon \/ AgentStats

SpecAgent == Init /\ [][NextAgent]_vars

\* The agent drives the bounties and keeps the journal beside them, every call
\* in the block of the construction.
AgentLog ==
    \E c \in Chains, a \in Actions, d \in Details :
       logActivity(agent, now, c, a, d) /\ Bounded(MaxAgentEvents)

NextLedger == NextAgent \/ AgentLog

SpecLedger == Init /\ [][NextLedger]_vars

\* the cap on the event log in the life of one bounty
MaxLifeEvents == MaxEvents + 1

\* The agent takes one bounty through its life, block after block: the only
\* pair there is can be claimed once, with any of the estimates, and settled
\* with any of the amounts.
LifeClaim ==
    \E t \in Timestamps, pb \in LifePairs, title \in Titles, r \in LifeEstimates :
       claimBounty(agent, t, pb[1], pb[2], title, r) /\ Bounded(MaxLifeEvents)

LifeDelivery ==
    \E t \in Timestamps, idx \in Indexes, link \in Links :
       recordDelivery(agent, t, idx, link) /\ Bounded(MaxLifeEvents)

LifePayment ==
    \E t \in Timestamps, idx \in Indexes, amount \in LifeAmounts :
       recordPayment(agent, t, idx, amount) /\ Bounded(MaxLifeEvents)

LifeAbandon ==
    \E t \in Timestamps, idx \in Indexes, reason \in Reasons :
       abandon(agent, t, idx, reason) /\ Bounded(MaxLifeEvents)

LifeStats == statsCall(agent)

NextLife == LifeClaim \/ LifeDelivery \/ LifePayment \/ LifeAbandon \/ LifeStats

SpecLife == Init /\ [][NextLife]_vars

----------------------------------------------------------------------------
(* Vocabulary of the properties *)

Last(q) == q[Len(q)]
Front(q) == SubSeq(q, 1, Len(q) - 1)

PairOf(b) == <<b.platform, b.bountyId>>

ClaimedPairs == {PairOf(bounties[i]) : i \in 1..Len(bounties)}

\* the kind of event each mutator emits
KindOf(op) ==
    CASE op = "claimBounty" -> "BountyClaimed"
      [] op = "recordDelivery" -> "BountyDelivered"
      [] op = "recordPayment" -> "BountyPaid"
      [] op = "abandon" -> "BountyAbandoned"
      [] op = "logActivity" -> "ActivityLogged"

\* the latest call was a mutator's, and it returned / it reverted
Succeeded(call) == call.op \in Mutators /\ call.result = OK
Failed(call) == call.op \in Mutators /\ call.result # OK

RECURSIVE SumOver(_, _)
SumOver(f, S) ==
    IF S = {} THEN 0
    ELSE LET x == CHOOSE y \in S : TRUE IN f[x] + SumOver(f, S \ {x})

\* the ordinals (1-based positions) of the bounties whose status is st
WithStatus(st) == {i \in 1..Len(bounties) : bounties[i].status = st}

\* the sum of rewardUsd over the bounties whose status is Paid, as a number
SumPaid == SumOver([i \in 1..Len(bounties) |-> bounties[i].rewardUsd], WithStatus(Paid))

EventsOfKind(kind) == SelectSeq(events, LAMBDA e : e.kind = kind)

----------------------------------------------------------------------------
(* C1: a call of a mutator by anyone but the agent reverts with "only agent"
   (Unauthorized); the bounties, the index, the journal and the event log are
   then what they were before the call.  Checked under Spec. *)
C1_UnauthorizedIsNoOp ==
    [][(lastCall'.op \in Mutators /\ lastCall'.caller # agent)
         => /\ lastCall'.result = Unauthorized
            /\ UNCHANGED <<bounties, bountyIndex, activityLog, events>>]_vars

\* a stranger's recordPayment has just been refused on a Delivered bounty, which
\* the agent could have paid
C1_Witness ==
    /\ lastCall.op = "recordPayment"
    /\ lastCall.caller # agent
    /\ lastCall.result = Unauthorized
    /\ \E i \in 1..Len(bounties) : bounties[i].status = Delivered

(* C2: no pair (platform, bountyId) is claimed twice: the bounties have pairwise
   different pairs; a claim of a pair that some bounty already has never returns,
   whatever that bounty's status, and called by the agent it reverts with
   "already claimed" (DuplicateBounty); a key of the index, once non-zero, keeps
   a non-zero value.  Checked under SpecAgent. *)
C2_ClaimAtMostOnce ==
    /\ [](\A i, j \in 1..Len(bounties) :
            PairOf(bounties[i]) = PairOf(bounties[j]) => i = j)
    /\ [][\A k \in DOMAIN bountyIndex :
            bountyIndex[k] # 0 => (k \in DOMAIN bountyIndex' /\ bountyIndex'[k] # 0)]_vars
    /\ [][\A caller \in Callers, pb \in ClaimedPairs, title \in Titles, r \in Estimates :
            claimBounty(caller, now', pb[1], pb[2], title, r)
              => /\ lastCall'.result # OK
                 /\ caller = agent => lastCall'.result = DuplicateBounty]_vars

\* the agent's claim has just been refused as a duplicate while the only bounty,
\* whose pair shares its key with no other pair, is Abandoned after being Paid
C2_Witness ==
    /\ lastCall.op = "claimBounty"
    /\ lastCall.result = DuplicateBounty
    /\ Len(bounties) = 1
    /\ PairOf(bounties[1]) = <<"a", "c">>
    /\ bounties[1].status = Abandoned
    /\ bounties[1].paidAt # 0

(* C3: called by the agent with the index of an existing bounty, recordDelivery
   returns if and only if the bounty's status is Claimed and recordPayment if and
   only if it is Delivered; in every other status they revert with "not claimed",
   respectively "not delivered" (InvalidStateTransition).  Checked under SpecAgent. *)
C3_StateMachine ==
    [][\A idx \in 0..(Len(bounties) - 1) :
         /\ \A link \in Links :
              recordDelivery(agent, now', idx, link)
                => /\ lastCall'.result = OK <=> bounties[idx + 1].status = Claimed
                   /\ lastCall'.result # OK => lastCall'.result \in InvalidStateTransition
         /\ \A amount \in Amounts :
              recordPayment(agent, now', idx, amount)
                => /\ lastCall'.result = OK <=> bounties[idx + 1].status = Delivered
                   /\ lastCall'.result # OK => lastCall'.result \in InvalidStateTransition]_vars

\* recordPayment has just been refused on the only bounty, which is Abandoned
C3_Witness ==
    /\ lastCall.op = "recordPayment"
    /\ lastCall.result = NotDelivered
    /\ Len(bounties) = 1
    /\ bounties[1].status = Abandoned

(* C4: a mutator that reverts with "already claimed", "invalid idx", "not claimed"
   or "not delivered" changes nothing: the bounties and their number, the index,
   the journal and the event log are what they were before the call.  Checked
   under Spec. *)
C4_FailedCallIsNoOp ==
    [][(lastCall'.op \in Mutators /\
        lastCall'.result \in {DuplicateBounty, InvalidIndex, NotClaimed, NotDelivered})
         => UNCHANGED <<bounties, bountyIndex, activityLog, events>>]_vars

\* the agent's recordDelivery has just been refused on a bounty that is there
C4_Witness ==
    /\ lastCall.op = "recordDelivery"
    /\ lastCall.caller = agent
    /\ lastCall.result = NotClaimed
    /\ Len(events) >= 2

(* C5: the number of bounties is the number of claims that returned, and the
   claim that has just returned, the Nth, returned N - 1.  Checked under Spec. *)
C5_DenseOrdinals ==
    /\ totalBounties = okCalls["claimBounty"]
    /\ (lastCall.op = "claimBounty" /\ lastCall.result = OK)
         => lastCall.ret = <<okCalls["claimBounty"] - 1>>

\* the second claim has just returned, after a journal entry was logged
C5_Witness ==
    /\ lastCall.op = "claimBounty"
    /\ lastCall.result = OK
    /\ okCalls["claimBounty"] = 2
    /\ okCalls["logActivity"] = 1

(* C6, as stated: in every reachable state stats() returns, its totalEarned is
   the sum of rewardUsd over the Paid bounties, its paid their number and its
   total the number of bounties.  Checked under SpecAgent. *)
C6_StatsAlwaysEqualsSum ==
    /\ ~stats.panic
    /\ stats.totalEarned = SumPaid
    /\ stats.paid = Cardinality(WithStatus(Paid))
    /\ stats.total = totalBounties

(* C6, amended: in every reachable state in which the sum of rewardUsd over the
   Paid bounties is at most 2^w - 1, stats() returns, its totalEarned is that
   sum, its paid the number of Paid bounties and its total the number of
   bounties; in the other states stats() reverts.  Checked under SpecAgent. *)
C6_StatsEqualsSumWhenItFits ==
    IF SumPaid <= UintMax
    THEN /\ ~stats.panic
         /\ stats.totalEarned = SumPaid
         /\ stats.paid = Cardinality(WithStatus(Paid))
         /\ stats.total = totalBounties
    ELSE stats.panic

\* a Paid bounty beside an Abandoned one, both with a reward, and a sum that fits
C6_Witness ==
    /\ SumPaid <= UintMax
    /\ \E i \in WithStatus(Paid) : bounties[i].rewardUsd > 0
    /\ \E j \in WithStatus(Abandoned) : bounties[j].rewardUsd > 0

(* C7: called by the agent, abandon returns for every index of an existing
   bounty, whatever its status, and leaves it Abandoned; it reverts only for an
   index that is not below the number of bounties, with "invalid idx"
   (InvalidIndex).  Checked under SpecAgent. *)
C7_AbandonFromAnyStatus ==
    [][\A idx \in Indexes, reason \in Reasons :
         abandon(agent, now', idx, reason)
           => IF idx < totalBounties
              THEN lastCall'.result = OK /\ bounties'[idx + 1].status = Abandoned
              ELSE lastCall'.result = InvalidIndex]_vars

\* abandon has just returned on a bounty that had been Paid
C7_Witness ==
    /\ lastCall.op = "abandon"
    /\ lastCall.result = OK
    /\ Last(events).kind = "BountyAbandoned"
    /\ events[Len(events) - 1].kind = "BountyPaid"
    /\ events[Len(events) - 1].idx = Last(events).idx

(* C8: the events are as many as the mutator calls that returned: a call that
   returns appends exactly one event, of its own kind, and a call that reverts
   (or a view) appends none.  Checked under Spec. *)
C8_OneEventPerCommit ==
    /\ [](Len(events) = SumOver(okCalls, Mutators))
    /\ [][IF Succeeded(lastCall')
          THEN /\ Len(events') = Len(events) + 1
               /\ Front(events') = events
               /\ Last(events').kind = KindOf(lastCall'.op)
          ELSE events' = events]_vars

\* a claim, a delivery and a payment were published, and a call has just failed
C8_Witness ==
    /\ Len(events) = 3
    /\ events[3].kind = "BountyPaid"
    /\ Failed(lastCall)

(* C9: the event log is in the order of the commits and of the storage: the k-th
   BountyClaimed event carries idx k - 1 and the platform, bountyId and title of
   bounties[k - 1], and at its emission also its rewardUsd; the k-th
   ActivityLogged event carries idx k - 1 and the chain and action of
   activityLog[k - 1]; and an event of a delivery, payment or abandon of idx i
   comes after the BountyClaimed event of idx i.  Checked under Spec. *)
C9_FeedOrder ==
    /\ [](LET claims == EventsOfKind("BountyClaimed")
              logs == EventsOfKind("ActivityLogged")
          IN  /\ Len(claims) = Len(bounties)
              /\ \A k \in 1..Len(claims) :
                    /\ claims[k].idx = k - 1
                    /\ claims[k].platform = bounties[k].platform
                    /\ claims[k].bountyId = bounties[k].bountyId
                    /\ claims[k].title = bounties[k].title
              /\ Len(logs) = Len(activityLog)
              /\ \A k \in 1..Len(logs) :
                    /\ logs[k].idx = k - 1
                    /\ logs[k].chain = activityLog[k].chain
                    /\ logs[k].action = activityLog[k].action
              /\ \A p \in 1..Len(events) :
                    events[p].kind \in {"BountyDelivered", "BountyPaid", "BountyAbandoned"}
                      => \E q \in 1..(p - 1) :
                            events[q].kind = "BountyClaimed" /\ events[q].idx = events[p].idx)
    /\ [][(lastCall'.op = "claimBounty" /\ lastCall'.result = OK)
            => /\ Last(events').idx = Len(bounties') - 1
               /\ Last(events').rewardUsd = Last(bounties').rewardUsd]_vars

\* a claim, a journal entry and then a second claim were published
C9_Witness ==
    /\ Len(events) = 3
    /\ events[1].kind = "BountyClaimed"
    /\ events[2].kind = "ActivityLogged"
    /\ events[3].kind = "BountyClaimed"

(* C10: the journal has as many entries as logActivity calls have returned, the
   call that has just returned, the Nth, returned N - 1, and the number of entries
   grows by exactly one in a logActivity call that returns and stays what it is
   in every other call.  Checked under Spec. *)
C10_JournalCount ==
    /\ [](/\ totalActivities = okCalls["logActivity"]
          /\ (lastCall.op = "logActivity" /\ lastCall.result = OK)
                => lastCall.ret = <<okCalls["logActivity"] - 1>>)
    /\ [][totalActivities' =
            IF lastCall'.op = "logActivity" /\ lastCall'.result = OK
            THEN totalActivities + 1 ELSE totalActivities]_vars

\* the second logActivity has just returned, after a bounty was claimed
C10_Witness ==
    /\ lastCall.op = "logActivity"
    /\ lastCall.result = OK
    /\ okCalls["logActivity"] = 2
    /\ Len(bounties) = 1

(* C11: a journal entry, once written, stays what it is: in every step each
   entry of the journal is still there, under the same ordinal, with the chain,
   action, details and timestamp it had, whatever the call: a later logActivity,
   a call on the bounties, or a call that reverts.  Checked under Spec. *)
C11_JournalEntriesImmutable ==
    [][\A j \in 1..Len(activityLog) :
         /\ j <= Len(activityLog')
         /\ activityLog'[j].chain = activityLog[j].chain
         /\ activityLog'[j].action = activityLog[j].action
         /\ activityLog'[j].details = activityLog[j].details
         /\ activityLog'[j].timestamp = activityLog[j].timestamp]_vars

\* an entry was logged in the first block, the same tuple again in a later block,
\* and then a bounty was claimed
C11_Witness ==
    /\ Len(activityLog) = 2
    /\ activityLog[1].timestamp < activityLog[2].timestamp
    /\ activityLog[1].details = activityLog[2].details
    /\ lastCall.op = "claimBounty"
    /\ lastCall.result = OK

(* C12, as stated: the agent's claim reverts with "already claimed"
   (DuplicateBounty) only if the very pair (platform, bountyId) of the call is
   the pair of a bounty already in the ledger: the key tells pairs apart, and
   the claim of one pair never blocks the claim of another.  Checked under
   SpecAgent. *)
C12_DuplicateOnlyForSamePair ==
    [][\A pb \in Pairs, title \in Titles, r \in Estimates :
         (claimBounty(agent, now', pb[1], pb[2], title, r)
            /\ lastCall'.result = DuplicateBounty)
           => pb \in ClaimedPairs]_vars

\* the estimate given at the claim of bounty idx, as its BountyClaimed event has it
EstimateOf(idx) == EventsOfKind("BountyClaimed")[idx + 1].rewardUsd

\* a payment of bounty idx was recorded
EverPaid(idx) == \E p \in 1..Len(events) :
                    events[p].kind = "BountyPaid" /\ events[p].idx = idx

(* C13: a recordPayment(idx, amount) that returns leaves bounty idx with status
   Paid, paidAt the timestamp of the call's block and rewardUsd the amount of the
   call, whether the estimate of the claim was more, less, the same or zero; and
   a bounty of which no payment was recorded has the estimate of its claim as
   rewardUsd.  Checked under SpecLife. *)
C13_PaymentOverwritesEstimate ==
    /\ [](\A idx \in 0..(Len(bounties) - 1) :
            ~EverPaid(idx) => bounties[idx + 1].rewardUsd = EstimateOf(idx))
    /\ [][\A idx \in 0..(Len(bounties) - 1), amount \in LifeAmounts :
            (recordPayment(agent, now', idx, amount) /\ lastCall'.result = OK)
              => /\ bounties'[idx + 1].status = Paid
                 /\ bounties'[idx + 1].paidAt = now'
                 /\ bounties'[idx + 1].rewardUsd = amount]_vars

\* a bounty claimed with no estimate has just been paid, in a later block
C13_Witness ==
    /\ lastCall.op = "recordPayment"
    /\ lastCall.result = OK
    /\ EstimateOf(0) = 0
    /\ bounties[1].rewardUsd = 75
    /\ bounties[1].status = Paid
    /\ bounties[1].paidAt = now
    /\ bounties[1].paidAt > bounties[1].claimedAt

\* bounty idx was delivered: a BountyDelivered event of idx is in the log
EverDelivered(idx) == \E p \in 1..Len(events) :
                         events[p].kind = "BountyDelivered" /\ events[p].idx = idx

(* C14: in every step, a bounty whose status changes goes from Claimed to
   Delivered in a recordDelivery, from Delivered to Paid in a recordPayment, or
   from any status to Abandoned in an abandon; so an Abandoned bounty stays
   Abandoned, a Paid bounty stays Paid or becomes Abandoned, and a bounty that is
   Paid was delivered before.  Checked under SpecAgent. *)
C14_StatusTransitions ==
    /\ [](\A i \in 1..Len(bounties) :
            bounties[i].status = Paid
              => EverDelivered(i - 1) /\ bounties[i].deliveredAt # 0)
    /\ [][\A i \in 1..Len(bounties) :
            LET old == bounties[i].status
                new == bounties'[i].status
            IN  /\ new # old
                     => \/ old = Claimed /\ new = Delivered
                           /\ lastCall'.op = "recordDelivery"
                        \/ old = Delivered /\ new = Paid
                           /\ lastCall'.op = "recordPayment"
                        \/ new = Abandoned /\ lastCall'.op = "abandon"
                /\ old = Abandoned => new = Abandoned
                /\ old = Paid => new \in {Paid, Abandoned}]_vars

\* a bounty went all the way to Paid and was then abandoned, and a delivery of it
\* has just been refused
C14_Witness ==
    /\ lastCall.op = "recordDelivery"
    /\ lastCall.result = NotClaimed
    /\ Len(bounties) = 1
    /\ bounties[1].status = Abandoned
    /\ EverPaid(0)
    /\ Len(events) = 4

\* the event logs of the walk-through: after its claim, delivery, payment, abandon
WalkClaimed == <<BountyClaimedEvent(0, "github", "42", "Fix bug", 100)>>
WalkDelivered == Append(WalkClaimed, BountyDeliveredEvent(0, "https://pr/1"))
WalkPaid == Append(WalkDelivered, BountyPaidEvent(0, 75))
WalkAbandoned == Append(WalkPaid, BountyAbandonedEvent(0, "n/a"))

(* C15: the walk-through, every call the agent's.  On the fresh ledger
   claimBounty("github", "42", "Fix bug", 100) returns 0 and bounty 0 is Claimed;
   from then on the same claim reverts with "already claimed" (DuplicateBounty)
   and recordPayment(0, 50) reverts with "not delivered"
   (InvalidStateTransition), while recordDelivery(0, "https://pr/1") returns and
   bounty 0 is Delivered; then recordPayment(0, 75) returns, bounty 0 is Paid and
   stats() returns totalEarned 75; then abandon(0, "n/a") returns and bounty 0
   is Abandoned.  Checked under SpecLife. *)
C15_WalkThrough ==
    [][/\ (events = <<>> /\ claimBounty(agent, now', "github", "42", "Fix bug", 100))
            => /\ lastCall'.result = OK
               /\ lastCall'.ret = <<0>>
               /\ bounties'[1].status = Claimed
               /\ events' = WalkClaimed
       /\ (events = WalkClaimed /\ claimBounty(agent, now', "github", "42", "Fix bug", 100))
            => /\ lastCall'.result = DuplicateBounty
               /\ events' = WalkClaimed
       /\ (events = WalkClaimed /\ recordPayment(agent, now', 0, 50))
            => /\ lastCall'.result \in InvalidStateTransition
               /\ events' = WalkClaimed
       /\ (events = WalkClaimed /\ recordDelivery(agent, now', 0, "https://pr/1"))
            => /\ lastCall'.result = OK
               /\ bounties'[1].status = Delivered
               /\ events' = WalkDelivered
       /\ (events = WalkDelivered /\ recordPayment(agent, now', 0, 75))
            => /\ lastCall'.result = OK
               /\ bounties'[1].status = Paid
               /\ events' = WalkPaid
       /\ (events = WalkPaid /\ statsCall(agent))
            => /\ lastCall'.result = OK
               /\ lastCall'.ret[5] = 75
       /\ (events = WalkPaid /\ abandon(agent, now', 0, "n/a"))
            => /\ lastCall'.result = OK
               /\ bounties'[1].status = Abandoned
               /\ events' = WalkAbandoned]_vars

\* the end of the walk-through: the bounty, paid 75, has just been abandoned
C15_Witness ==
    /\ events = WalkAbandoned
    /\ lastCall.op = "abandon"
    /\ lastCall.result = OK
    /\ bounties[1].status = Abandoned
    /\ bounties[1].rewardUsd = 75

(* C16: a claimBounty(platform, bountyId, title, rewardUsd) that returns appends
   exactly one bounty and leaves the others as they were; the new bounty has the
   four arguments as platform, bountyId, title and rewardUsd, status Claimed,
   claimedAt the timestamp of the call's block, deliveredAt and paidAt 0 and an
   empty prLink; and the index holds the returned ordinal plus one under the key
   of the pair.  Checked under Spec. *)
C16_ClaimAppendsOneBounty ==
    [][(lastCall'.op = "claimBounty" /\ lastCall'.result = OK)
         => \A pb \in Pairs, title \in Titles, r \in Estimates :
              claimBounty(lastCall'.caller, now', pb[1], pb[2], title, r)
                => /\ Len(bounties') = Len(bounties) + 1
                   /\ Front(bounties') = bounties
                   /\ Last(bounties').platform = pb[1]
                   /\ Last(bounties').bountyId = pb[2]
                   /\ Last(bounties').title = title
                   /\ Last(bounties').rewardUsd = r
                   /\ Last(bounties').status = Claimed
                   /\ Last(bounties').claimedAt = now'
                   /\ Last(bounties').deliveredAt = 0
                   /\ Last(bounties').paidAt = 0
                   /\ Last(bounties').prLink = ""
                   /\ lastCall'.ret = <<Len(bounties)>>
                   /\ BountyKey(pb[1], pb[2]) \in DOMAIN bountyIndex'
                   /\ bountyIndex'[BountyKey(pb[1], pb[2])] = Len(bounties) + 1
                   /\ \A k \in DOMAIN bountyIndex :
                         k \in DOMAIN bountyIndex' /\ bountyIndex'[k] = bountyIndex[k]]_vars

\* a second bounty has just been claimed, in a later block than the first, which
\* was delivered in between
C16_Witness ==
    /\ lastCall.op = "claimBounty"
    /\ lastCall.result = OK
    /\ Len(bounties) = 2
    /\ bounties[1].status = Delivered
    /\ bounties[2].claimedAt = now
    /\ bounties[2].claimedAt > bounties[1].claimedAt
    /\ bountyIndexAt(BountyKey(bounties[2].platform, bounties[2].bountyId)) = 2

(* C17: a logActivity(chain, action, details) of the agent always returns: it
   appends one entry with the three arguments and the timestamp of the call's
   block, whether or not the journal already has entries of the same tuple, and
   returns the entry's ordinal, the number of entries there were.  Checked under
   Spec. *)
C17_LogAlwaysAppends ==
    [][\A c \in Chains, a \in Actions, d \in Details :
         logActivity(agent, now', c, a, d)
           => /\ lastCall'.result = OK
              /\ activityLog' = Append(activityLog,
                                       [chain |-> c, action |-> a, details |-> d,
                                        timestamp |-> now'])
              /\ lastCall'.ret = <<Len(activityLog)>>]_vars

\* the same tuple was logged three times, twice in one block, each time under a
\* new ordinal
C17_Witness ==
    /\ lastCall.op = "logActivity"
    /\ lastCall.result = OK
    /\ lastCall.ret = <<2>>
    /\ Len(activityLog) = 3
    /\ activityLog[1] = activityLog[2]
    /\ activityLog[3].details = activityLog[1].details
    /\ activityLog[3].timestamp > activityLog[2].timestamp

(* C18: the agent is the caller of the constructor, and no step changes it: in
   every reachable state, whoever has called whatever since, agent is the
   address the deployment set.  Checked under Spec. *)
C18_AgentIsTheDeployer ==
    /\ (lastCall.op = "constructor" /\ lastCall.caller = agent)
    /\ [][agent' = agent]_vars
    /\ [](agent \in Deployers)

\* the agent claimed a bounty and, in a later block, a stranger's abandon of it
\* has just been refused: the agent is still the deployer, and nobody else
C18_Witness ==
    /\ lastCall.op = "abandon"
    /\ lastCall.caller # agent
    /\ lastCall.result = Unauthorized
    /\ Len(bounties) = 1
    /\ bounties[1].status = Claimed
    /\ now > bounties[1].claimedAt

(* C19: no bounty is ever deleted or moved: in every step the number of
   bounties does not go down, and each bounty there is stays under its index
   with the platform, bountyId, title and claimedAt it has.  Checked under
   Spec. *)
C19_BountiesArePermanent ==
    [][/\ totalBounties' >= totalBounties
       /\ \A i \in 1..Len(bounties) :
            /\ i <= Len(bounties')
            /\ bounties'[i].platform = bounties[i].platform
            /\ bounties'[i].bountyId = bounties[i].bountyId
            /\ bounties'[i].title = bounties[i].title
            /\ bounties'[i].claimedAt = bounties[i].claimedAt]_vars

\* the first of two bounties, claimed in the first block, has just been abandoned
\* in a later block
C19_Witness ==
    /\ lastCall.op = "abandon"
    /\ lastCall.result = OK
    /\ Len(bounties) = 2
    /\ bounties[1].status = Abandoned
    /\ bounties[2].status = Claimed
    /\ bounties[1].claimedAt < now

\* the callers that are not the agent
Strangers == Callers \ {agent}

(* C20: the checks come in the order caller, index, status.  A call of a mutator
   by anyone but the agent reverts with "only agent" (Unauthorized) whatever its
   arguments: an index that is out of range, or the pair of a bounty that is
   already there.  The agent's recordDelivery or recordPayment with an index not
   below the number of bounties reverts with "invalid idx" (InvalidIndex), never
   with "not claimed" or "not delivered".  Checked under Spec. *)
C20_ErrorOrder ==
    [][LET caller == lastCall'.caller
           op == lastCall'.op
           result == lastCall'.result
       IN  /\ (caller \in Strangers /\ op = "recordDelivery")
                 => \A idx \in Indexes, link \in Links :
                       recordDelivery(caller, now', idx, link) => result = Unauthorized
           /\ (caller \in Strangers /\ op = "recordPayment")
                 => \A idx \in Indexes, amount \in Amounts :
                       recordPayment(caller, now', idx, amount) => result = Unauthorized
           /\ (caller \in Strangers /\ op = "abandon")
                 => \A idx \in Indexes, reason \in Reasons :
                       abandon(caller, now', idx, reason) => result = Unauthorized
           /\ (caller \in Strangers /\ op = "claimBounty")
                 => \A pb \in Pairs, title \in Titles, r \in Estimates :
                       claimBounty(caller, now', pb[1], pb[2], title, r)
                         => result = Unauthorized
           /\ (caller = agent /\ op = "recordDelivery")
                 => \A idx \in {i \in Indexes : i >= totalBounties}, link \in Links :
                       recordDelivery(agent, now', idx, link) => result = InvalidIndex
           /\ (caller = agent /\ op = "recordPayment")
                 => \A idx \in {i \in Indexes : i >= totalBounties}, amount \in Amounts :
                       recordPayment(agent, now', idx, amount) => result = InvalidIndex]_vars

\* a stranger's claim has just been refused as unauthorized, in a ledger in which
\* the key of every pair is taken
C20_Witness ==
    /\ lastCall.op = "claimBounty"
    /\ lastCall.caller \in Strangers
    /\ lastCall.result = Unauthorized
    /\ \A pb \in Pairs : ~notYetClaimed(BountyKey(pb[1], pb[2]))

(* C21: abandon can be repeated: the agent's abandon(idx, reason) of a bounty
   that is Abandoned returns, leaves every bounty with every field it had, and the
   index and the journal as they were, and appends one more BountyAbandoned event
   of idx and reason to the event log.  Checked under SpecLife. *)
C21_AbandonIsRepeatable ==
    [][(lastCall'.op = "abandon" /\ lastCall'.caller = agent)
         => \A idx \in 0..(Len(bounties) - 1), reason \in Reasons :
              (bounties[idx + 1].status = Abandoned /\ abandon(agent, now', idx, reason))
                => /\ lastCall'.result = OK
                   /\ bounties' = bounties
                   /\ bountyIndex' = bountyIndex
                   /\ activityLog' = activityLog
                   /\ events' = Append(events, BountyAbandonedEvent(idx, reason))]_vars

\* an Abandoned bounty has just been abandoned once more, in a later block than
\* its claim: two BountyAbandoned events in a row, the same idx and reason
C21_Witness ==
    /\ lastCall.op = "abandon"
    /\ lastCall.result = OK
    /\ Len(events) >= 2
    /\ Last(events).kind = "BountyAbandoned"
    /\ events[Len(events) - 1] = Last(events)
    /\ bounties[1].status = Abandoned
    /\ bounties[1].claimedAt < now

\* the keys under which the index holds a non-zero value
TakenKeys == {k \in DOMAIN bountyIndex : bountyIndex[k] # 0}

(* C22: the index and the array agree in every state between two transactions:
   under the key of the pair of bounty i the index holds i + 1; every non-zero
   value of the index, less one, is the index of a bounty that is there; and the
   non-zero entries of the index are as many as the bounties.  Checked under
   SpecAgent. *)
C22_IndexMatchesList ==
    /\ \A i \in 0..(totalBounties - 1) :
          bountyIndexAt(BountyKey(bounties[i + 1].platform, bounties[i + 1].bountyId))
            = i + 1
    /\ \A k \in TakenKeys : bountyIndex[k] - 1 < totalBounties
    /\ Cardinality(TakenKeys) = totalBounties

\* two bounties, the first Abandoned after its delivery, and a claim that has just
\* been refused as a duplicate
C22_Witness ==
    /\ totalBounties = 2
    /\ Cardinality(TakenKeys) = 2
    /\ bounties[1].status = Abandoned
    /\ bounties[1].deliveredAt # 0
    /\ lastCall.op = "claimBounty"
    /\ lastCall.result = DuplicateBounty

\* a call on bounty idx leaves the other bounties, their number, the index and
\* the journal as they were
OnlyBounty(idx) ==
    /\ Len(bounties') = Len(bounties)
    /\ \A j \in 1..Len(bounties) : j # idx + 1 => bounties'[j] = bounties[j]
    /\ bountyIndex' = bountyIndex
    /\ activityLog' = activityLog

\* bounty idx keeps every field but those of the set fields
OnlyFields(idx, fields) ==
    \A f \in DOMAIN bounties[idx + 1] \ fields :
       bounties'[idx + 1][f] = bounties[idx + 1][f]

(* C23: a recordDelivery, recordPayment or abandon of bounty idx that returns
   leaves every other bounty, the number of bounties, the index and the journal
   as they were; of bounty idx, recordDelivery changes at most status,
   deliveredAt and prLink, recordPayment at most status, paidAt and rewardUsd,
   and abandon at most status.  Checked under SpecLedger. *)
C23_OnlyTheBountyChanges ==
    [][LET caller == lastCall'.caller
           op == lastCall'.op
       IN  lastCall'.result = OK
             => /\ op = "recordDelivery"
                     => \A idx \in 0..(Len(bounties) - 1), link \in Links :
                           recordDelivery(caller, now', idx, link)
                             => /\ OnlyBounty(idx)
                                /\ OnlyFields(idx, {"status", "deliveredAt", "prLink"})
                /\ op = "recordPayment"
                     => \A idx \in 0..(Len(bounties) - 1), amount \in Amounts :
                           recordPayment(caller, now', idx, amount)
                             => /\ OnlyBounty(idx)
                                /\ OnlyFields(idx, {"status", "paidAt", "rewardUsd"})
                /\ op = "abandon"
                     => \A idx \in 0..(Len(bounties) - 1), reason \in Reasons :
                           abandon(caller, now', idx, reason)
                             => /\ OnlyBounty(idx)
                                /\ OnlyFields(idx, {"status"})]_vars

\* the first of two bounties has just been paid, beside a Delivered second bounty
\* and an entry of the journal
C23_Witness ==
    /\ lastCall.op = "recordPayment"
    /\ lastCall.result = OK
    /\ Len(bounties) = 2
    /\ bounties[1].status = Paid
    /\ bounties[2].status = Delivered
    /\ Len(activityLog) = 1
    /\ Last(events).kind = "BountyPaid"
    /\ Last(events).idx = 0

(* C24: block.timestamp being positive and never going back, the timestamps of
   every bounty tell its history in every reachable state: a Claimed bounty has
   deliveredAt 0, paidAt 0 and an empty prLink; a Delivered one a deliveredAt
   that is set and paidAt 0; a Paid one both set; a bounty of any status whose
   paidAt is set has its deliveredAt set; and claimedAt <= deliveredAt <= paidAt
   wherever the later of the two is set.  Checked under SpecLife. *)
C24_TimestampsTellTheHistory ==
    /\ now >= 1
    /\ \A i \in 1..Len(bounties) :
          LET b == bounties[i]
          IN  /\ b.claimedAt >= 1 /\ b.claimedAt <= now
              /\ b.status = Claimed
                   => b.deliveredAt = 0 /\ b.paidAt = 0 /\ b.prLink = ""
              /\ b.status = Delivered => b.deliveredAt # 0 /\ b.paidAt = 0
              /\ b.status = Paid => b.deliveredAt # 0 /\ b.paidAt # 0
              /\ b.paidAt # 0 => b.deliveredAt # 0
              /\ b.deliveredAt # 0 => b.claimedAt <= b.deliveredAt
              /\ b.paidAt # 0 => b.deliveredAt <= b.paidAt

\* a bounty claimed in one block, delivered and paid in a later one, and then
\* abandoned: its paidAt and deliveredAt are still set
C24_Witness ==
    /\ Len(bounties) = 1
    /\ bounties[1].status = Abandoned
    /\ bounties[1].paidAt # 0
    /\ bounties[1].claimedAt < bounties[1].deliveredAt
    /\ bounties[1].deliveredAt <= bounties[1].paidAt

\* the number of bounties whose status is st
CountOf(st) == Cardinality(WithStatus(st))

\* what C25 says of the values stats() returns
StatsPartition ==
    /\ stats.claimed + stats.delivered + stats.paid + CountOf(Abandoned) = stats.total
    /\ stats.total = totalBounties
    /\ stats.claimed = CountOf(Claimed)
    /\ stats.delivered = CountOf(Delivered)
    /\ stats.paid = CountOf(Paid)
    /\ stats.totalEarned = SumPaid

(* C25, as stated: in every reachable state stats() returns, and its values
   split the bounties by status: claimed, delivered, paid and the number of
   Abandoned bounties add up to total, each count is the number of bounties of
   that status, and the Abandoned bounties are in total alone, in none of the
   three counts and not in totalEarned.  Checked under SpecAgent. *)
C25_StatsAlwaysPartitions == ~stats.panic /\ StatsPartition

(* C25, amended: in every reachable state in which the sum of rewardUsd over the
   Paid bounties is at most 2^w - 1, stats() returns and its values split the
   bounties by status as stated; in the other states stats() reverts and returns
   no values.  Checked under SpecAgent. *)
C25_StatsPartitionsWhenItReturns ==
    /\ stats.panic <=> SumPaid > UintMax
    /\ ~stats.panic => StatsPartition

\* a Claimed bounty beside one that was paid and then abandoned: stats() counts
\* one claimed, none paid, nothing earned, of a total of two
C25_Witness ==
    /\ ~stats.panic
    /\ stats.total = 2
    /\ stats.claimed = 1
    /\ stats.paid = 0
    /\ stats.totalEarned = 0
    /\ \E i \in WithStatus(Abandoned) :
          bounties[i].paidAt # 0 /\ bounties[i].rewardUsd > 0

(* C26: paid and totalEarned of stats() can go down.  The agent's abandon of a
   Paid bounty leaves the bounty its paidAt and rewardUsd, and if stats() returned
   before the call it returns after it with paid one less and totalEarned less
   by the bounty's rewardUsd; and where stats() returns before and after a call,
   totalEarned or paid is smaller after it only if the call was an abandon of a
   Paid bounty.  Checked under SpecAgent. *)
C26_PaidTotalsDropOnlyOnAbandon ==
    [][LET before == stats
           after == statsOf(bounties')
           abandonedPaid == {i \in 1..Len(bounties) :
                               /\ bounties[i].status = Paid
                               /\ bounties'[i].status = Abandoned}
       IN  /\ lastCall'.op = "abandon"
                => \A idx \in 0..(Len(bounties) - 1), reason \in Reasons :
                      (bounties[idx + 1].status = Paid /\ abandon(agent, now', idx, reason))
                        => /\ lastCall'.result = OK
                           /\ bounties'[idx + 1].paidAt = bounties[idx + 1].paidAt
                           /\ bounties'[idx + 1].paidAt # 0
                           /\ bounties'[idx + 1].rewardUsd = bounties[idx + 1].rewardUsd
                           /\ ~before.panic
                                => /\ ~after.panic
                                   /\ after.paid = before.paid - 1
                                   /\ after.totalEarned
                                        = before.totalEarned - bounties[idx + 1].rewardUsd
           /\ (~before.panic /\ ~after.panic /\
               (after.totalEarned < before.totalEarned \/ after.paid < before.paid))
                => /\ lastCall'.op = "abandon"
                   /\ lastCall'.result = OK
                   /\ abandonedPaid # {}]_vars

\* a bounty paid the largest amount has just been abandoned, beside a Delivered
\* one: stats() is back to no paid bounty and nothing earned
C26_Witness ==
    /\ lastCall.op = "abandon"
    /\ lastCall.result = OK
    /\ Len(bounties) = 2
    /\ \E i \in WithStatus(Abandoned) :
          bounties[i].paidAt # 0 /\ bounties[i].rewardUsd = UintMax
    /\ WithStatus(Delivered) # {}
    /\ stats.paid = 0
    /\ stats.totalEarned = 0
    /\ events[Len(events) - 1].kind = "BountyPaid"

(* C27: stats() does not return a wrapped sum, and payments are not held back by
   it.  A call of stats() in a state in which the sum of rewardUsd over the Paid
   bounties is more than 2^w - 1 reverts with a Panic, and in every other state
   it returns that sum as totalEarned; the agent's recordPayment of a Delivered
   bounty returns for every amount, whatever the Paid bounties already sum to.
   Checked under SpecAgent. *)
C27_StatsRevertsOnOverflow ==
    [][/\ (lastCall'.op = "stats" /\ statsCall(lastCall'.caller))
            => IF SumPaid > UintMax
               THEN lastCall'.result = Panic /\ lastCall'.ret = <<>>
               ELSE lastCall'.result = OK /\ lastCall'.ret[5] = SumPaid
       /\ lastCall'.op = "recordPayment"
            => \A idx \in 0..(Len(bounties) - 1), amount \in Amounts :
                  (bounties[idx + 1].status = Delivered
                     /\ recordPayment(agent, now', idx, amount))
                    => /\ lastCall'.result = OK
                       /\ bounties'[idx + 1].status = Paid
                       /\ bounties'[idx + 1].rewardUsd = amount]_vars

\* after claims, deliveries and payments alone, two Paid bounties sum to more than
\* the largest integer, and a call of stats() has just reverted
C27_Witness ==
    /\ lastCall.op = "stats"
    /\ lastCall.result = Panic
    /\ SumPaid > UintMax
    /\ EventsOfKind("BountyAbandoned") = <<>>
    /\ WithStatus(Paid) = 1..Len(bounties)
    /\ okCalls["recordPayment"] = 2

=============================================================================
